---- MODULE Spec2Model ----
(***************************************************************************)
(* Model of companionsKQML/companionsKQMLModule.py: the CompanionsKQML     *)
(* agent (listener thread, bounded dispatch pool, shared dispatcher /      *)
(* local_out / state fields, the short-lived outbound socket of send) and   *)
(* its helpers.                                                            *)
(*                                                                         *)
(* The accept loop, exit and send are modelled one statement per step; the *)
(* handlers a dispatch worker runs (a message handler, receive_eof) are    *)
(* one action each.                                                        *)
(***************************************************************************)
EXTENDS Integers, Sequences, FiniteSets, TLC

\* ------------------------------------------------------------------------
\* Bounds of the model (not program constants)
\* ------------------------------------------------------------------------
\* number of peers that connect during the lifetime of one agent (Spec)
NConn == 3
\* number of peers beyond the pool size that connect in PoolSpec
NExtra == 1
\* number of send() calls issued by dispatch workers in SendSpec
NCallers == 2
\* number of processes the OS enumerates during discovery (DiscSpec)
NProcs == 3
\* number of exit() calls the owner of an agent makes
NExits == 2
\* number of peers that connect to an agent that launched its host (Spec)
NLaunchPeers == 1
\* number of peers that connect in ExitSpec
NExitPeers == 2
\* longest argument list and result list of a query (QuerySpec)
MaxArgs == 3
MaxResults == 3
\* longest string, and longest sequence or tuple, handed to listify (TermSpec)
MaxStr == 3
MaxElems == 2

\* ------------------------------------------------------------------------
\* Program constants
\* ------------------------------------------------------------------------
\* ThreadPoolExecutor(max_workers=5)
max_workers == 5
\* listen_socket.listen(10)
Backlog == 10
\* valid_port: 1024 < port_num < 65535
PortLow == 1024
PortHigh == 65535
\* default arguments of __init__
DefaultPort == 9000
DefaultListenerPort == 8950
LOCALHOST_DEFS == {"localhost", "127.0.0.1", "::1"}
\* class attribute name
name == "CompanionsKQMLModule"
\* default argument host='localhost' of __init__
DefaultHost == "localhost"
\* PORTNUM = 'portnum.dat' is the file every directory below may hold
\* COMPANIONS_EXES, in priority order
COMPANIONS_EXES == <<"CompanionsMicroServer64.exe", "CompanionsServer64.exe">>
\* the process name of the development environment
Allegro == "allegro.exe"

\* Python's None for every field that holds an object or nothing
None == 0

\* peers of PoolSpec: enough to fill the pool and queue behind it
NPool == max_workers + NExtra
Conns == 1..(IF NConn > NPool THEN NConn ELSE NPool)
\* the send() call made by register() from the constructing thread
MainCaller == 1
\* send() calls made by handlers running on dispatch workers
WorkerCallers == 2..(NCallers + 1)
Callers == {MainCaller} \cup WorkerCallers
\* a BufferedWriter built around a send_socket field that held None
BadWriter == -1

\* a host or port argument the caller did not supply ('' / None are falsy)
NoHost == ""
\* a key a port record does not have
Absent == -1

\* directories that may hold a portnum.dat: next to either executable,
\* <qrg>/companions/v1, and the exe_path of the launch constructor
MicroDir == "micro"
ServerDir == "server"
QrgDir == "qrg/companions/v1"
LaunchDir == "exe_path"
OtherDir == "elsewhere"
Dirs == {MicroDir, ServerDir, QrgDir, LaunchDir}

\* process names the OS may enumerate, with the pid and directory of each
ProcNames == {COMPANIONS_EXES[1], COMPANIONS_EXES[2], Allegro, "python.exe"}
PidOf(nm) == CASE nm = COMPANIONS_EXES[1] -> 101
               [] nm = COMPANIONS_EXES[2] -> 102
               [] nm = Allegro -> 103
               [] OTHER -> 104
DirOf(nm) == CASE nm = COMPANIONS_EXES[1] -> MicroDir
               [] nm = COMPANIONS_EXES[2] -> ServerDir
               [] OTHER -> OtherDir
\* p.info of process_iter(attrs=['pid', 'name', 'exe'])
ProcessOf(nm) == [pid |-> PidOf(nm), name |-> nm, exe |-> DirOf(nm)]
\* the pid of the process the launch constructor spawns, and a pid that
\* belongs to none of the processes above
ChildPid == 201
StalePid == 999
\* the port each record advertises, by the directory it lies in
PortIn(d) == CASE d = MicroDir -> 9301
               [] d = ServerDir -> 9302
               [] d = QrgDir -> 9303
               [] OTHER -> 9100
\* the port of a record left behind by an earlier run of the host
StalePort == 9200
\* a port the caller passes explicitly
SuppliedPort == 9400

VARIABLES
  host, port, listener_port,   \* constructor arguments
  pcMain,                      \* position of the constructing / exiting thread
  listen_socket,               \* "none" | "listening"
  pcL,                         \* position of the listener thread (listen)
  connection,                  \* listen's local variable: the accepted socket
  ready, dispatcher, local_out, state,   \* shared fields of the agent
  conn,                        \* per inbound connection: where its dispatch unit is
  shut,                        \* per dispatcher: shutdown() has been invoked on it
  lastReply,                   \* the last reply written on the local port
  peers,                       \* how many peers connect in this run
  send_socket, out,            \* shared fields used by connect / send
  pcS, myOut, sock,            \* per send() call: position, out argument, its socket
  readyClearedAt,              \* history: connections arrived when exit cleared ready
  exitInFlight,                \* history: units in flight when exit signalled
  files,                       \* per directory: what its portnum.dat holds
  processes,                   \* the OS process table, in enumeration order
  qrg,                         \* a qrg directory exists under a root or home
  hostProc,                    \* the Companions host: "none" | "running" | "terminated"
  companions_process,          \* the Popen object of a launched host (its pid)
  verify_port, argHost, argPort,   \* arguments of the factory / launch constructor
  got,                         \* the last port lookup: who asked, and its outcome
  exits,                       \* number of exit() calls that have returned
  helperCall                   \* a call of a helper function: its inputs and result

vars == <<host, port, listener_port, pcMain, listen_socket, pcL, connection,
          ready, dispatcher, local_out, state, conn, shut, lastReply, peers,
          send_socket, out, pcS, myOut, sock, readyClearedAt, exitInFlight,
          files, processes, qrg, hostProc, companions_process, verify_port,
          argHost, argPort, got, exits, helperCall>>

cfgVars == <<host, port, listener_port>>
listenVars == <<pcL, connection>>
sharedVars == <<ready, dispatcher, local_out, state>>
connVars == <<conn, shut, lastReply, peers>>
sendVars == <<send_socket, out, pcS, myOut, sock>>
histVars == <<readyClearedAt, exitInFlight>>
\* the Companions host, the files and processes around it, and the lookup
hostVars == <<files, processes, qrg, hostProc, companions_process,
              verify_port, argHost, argPort, got>>

\* ------------------------------------------------------------------------
\* Helpers
\* ------------------------------------------------------------------------
MinOf(S) == CHOOSE x \in S : \A y \in S : x <= y

\* valid_ip: a loopback literal or something ip_address() accepts
ValidIPLiterals == {"10.0.0.5"}
valid_ip(h) == h \in LOCALHOST_DEFS \/ h \in ValidIPLiterals

\* a range check that admits both ends of the range
valid_port_Inclusive(p) == PortLow <= p /\ p <= PortHigh

valid_port(p) == PortLow < p /\ p < PortHigh

\* contents of a portnum.dat: no file, a JSON record, or a line that
\* load_dict cannot parse
NoFile == [kind |-> "absent", port |-> Absent, pid |-> Absent]
Record(p, q) == [kind |-> "record", port |-> p, pid |-> q]
Malformed == [kind |-> "malformed", port |-> Absent, pid |-> Absent]

\* how a call ends: it returns a value or raises
Returned(v) == [kind |-> "return", port |-> v]
Raised(e) == [kind |-> e, port |-> None]

\* get_port without the two asserts of the verify branch
get_port_NoVerify(portnum_path, process_pid, verify) ==
  LET f == files[portnum_path] IN
    IF f.kind = "absent" THEN Returned(None)
    ELSE IF f.kind = "malformed" THEN Raised("JSONDecodeError")
    ELSE IF f.port = Absent THEN Returned(None)
    ELSE Returned(f.port)

\* get_port(portnum_path, process_pid, verify)
get_port(portnum_path, process_pid, verify) ==
  LET f == files[portnum_path] IN
    IF f.kind = "absent" THEN Returned(None)
    ELSE IF f.kind = "malformed" THEN Raised("JSONDecodeError")
    ELSE IF f.port = Absent THEN Returned(None)
    ELSE IF verify /\ f.pid = Absent THEN Raised("AssertionError")
    ELSE IF verify /\ process_pid # f.pid THEN Raised("AssertionError")
    ELSE Returned(f.port)

\* next(p.info for p in processes if name in p.info['name']) on the one
\* process_iter generator: the first match at or after position pos, and
\* the position the generator is left at
NextMatch(nm, pos) ==
  LET hits == {i \in pos..Len(processes) : processes[i].name = nm} IN
    IF hits = {}
      THEN [at |-> 0, pos |-> Len(processes) + 1]
      ELSE [at |-> MinOf(hits), pos |-> MinOf(hits) + 1]

\* for name in COMPANIONS_EXES: ... if process: companion = process; break
RECURSIVE FindCompanion(_, _)
FindCompanion(i, pos) ==
  IF i > Len(COMPANIONS_EXES)
    THEN [at |-> 0, pos |-> pos]
    ELSE LET m == NextMatch(COMPANIONS_EXES[i], pos) IN
           IF m.at # 0 THEN m ELSE FindCompanion(i + 1, m.pos)

\* a discovery that consults the development environment first and the
\* executables only when that yields no port
check_for_companions_DevFirst(verify) ==
  LET allegro == NextMatch(Allegro, 1)
      dev == IF qrg /\ allegro.at # 0
               THEN get_port(QrgDir, processes[allegro.at].pid, verify)
               ELSE Returned(None)
      companion == FindCompanion(1, 1)
  IN IF dev.kind # "return" THEN dev
     ELSE IF dev.port # None THEN dev
     ELSE IF companion.at # 0
       THEN get_port(processes[companion.at].exe,
                     processes[companion.at].pid, verify)
       ELSE dev

\* check_for_companions(verify)
check_for_companions(verify) ==
  LET companion == FindCompanion(1, 1)
      potential_port ==
        IF companion.at = 0
          THEN Returned(None)
          ELSE get_port(processes[companion.at].exe,
                        processes[companion.at].pid, verify)
      allegro == NextMatch(Allegro, companion.pos)
  IN IF potential_port.kind # "return" THEN potential_port
     ELSE IF potential_port.port # None THEN potential_port
     ELSE IF qrg /\ allegro.at # 0
       THEN get_port(QrgDir, processes[allegro.at].pid, verify)
       ELSE potential_port

\* no helper function is being called
NoHelperCall == [fn |-> "none"]

\* no port lookup has been made yet
NoCall == [by |-> "none", path |-> "", pid |-> None, verify |-> FALSE,
           res |-> Returned(None)]
Lookup(who, d, q, v, r) ==
  [by |-> who, path |-> d, pid |-> q, verify |-> v, res |-> r]

\* the registration performative built by register()
\* a registration that advertises the port of the host instead of the
\* agent's own listener port
Registration_HostPort(h, lp) ==
  [verb |-> "register", sender |-> name, receiver |-> "facilitator",
   content |-> <<<<"socket", h, port>>, "nil", "nil", port>>]

\* (register :sender name :receiver facilitator
\*           :content ("socket://host:listener_port" nil nil listener_port))
Registration(h, lp) ==
  [verb |-> "register", sender |-> name, receiver |-> "facilitator",
   content |-> <<<<"socket", h, lp>>, "nil", "nil", lp>>]

\* the message send() call k was given, tagged with the call it belongs to
MsgOf(k) == IF k = MainCaller
              THEN [call |-> k, msg |-> Registration(host, listener_port)]
              ELSE [call |-> k, msg |-> [verb |-> "tell", sender |-> name,
                                         receiver |-> "facilitator",
                                         content |->
                                           IF helperCall.fn = "response_to_query"
                                             THEN helperCall.reply.content
                                             ELSE <<>>]]

NewSock == [created |-> FALSE, connected |-> FALSE, msgs |-> <<>>,
            shutdowns |-> 0, closes |-> 0]

Pending == {c \in Conns : conn[c] = "pending"}
Queued == {c \in Conns : conn[c] = "queued"}
\* dispatch units whose processing has begun and not ended
Running == {c \in Conns : conn[c] \in {"read1", "read2"}}

\* ------------------------------------------------------------------------
\* KQML terms, native values, listify and the wire form
\* ------------------------------------------------------------------------
\* A Python str is the sequence of its characters.  KQML objects (a token
\* and a string hold characters, a list holds its data):
KQMLToken(s) == [t |-> "token", v |-> s]
KQMLString(s) == [t |-> "string", v |-> s]
KQMLList(ts) == [t |-> "list", data |-> ts]
\* native values handed to listify
PyStr(s) == [t |-> "str", v |-> s]
PyBool(b) == [t |-> "bool", b |-> b]
PyList(vs) == [t |-> "pylist", data |-> vs]
PyTuple(vs) == [t |-> "tuple", data |-> vs]
\* a dict, as the sequence of its items(): (key, value) tuples
PyDict(items) == [t |-> "dict", data |-> items]

Space == " "
Quote == "\""
\* the characters str.split() and the reader take as whitespace
Whitespace == {Space, "\t"}
\* ' ' in possible_list
HasSpace(s) == \E i \in 1..Len(s) : s[i] = Space

\* str.split(): the maximal runs of non-whitespace characters of s, from
\* position i on, cur being the run read so far
RECURSIVE SplitFrom(_, _, _)
SplitFrom(s, i, cur) ==
  IF i > Len(s)
    THEN (IF cur = <<>> THEN <<>> ELSE <<cur>>)
    ELSE IF s[i] \in Whitespace
      THEN (IF cur = <<>> THEN <<>> ELSE <<cur>>) \o SplitFrom(s, i + 1, <<>>)
      ELSE SplitFrom(s, i + 1, Append(cur, s[i]))
Split(s) == SplitFrom(s, 1, <<>>)

\* str(obj) of a KQML object: a token is written as its data, a string in
\* double quotes, a list in parentheses with its elements separated by one
\* space
RECURSIVE WriteAll(_, _)
RECURSIVE Write(_)
Write(term) ==
  CASE term.t = "token" -> term.v
    [] term.t = "string" -> <<Quote>> \o term.v \o <<Quote>>
    [] term.t = "list" -> <<"(">> \o WriteAll(term.data, 1) \o <<")">>
WriteAll(ts, i) ==
  IF i > Len(ts) THEN <<>>
  ELSE Write(ts[i]) \o (IF i < Len(ts) THEN <<Space>> ELSE <<>>)
         \o WriteAll(ts, i + 1)

\* a test that takes no tuple for a pair
IsPair_Never(possible_list) == FALSE

\* len(possible_list) == 2
IsPair(possible_list) == Len(possible_list.data) = 2

\* listify(possible_list), the isinstance tests in the order of the code
RECURSIVE listify(_)
listify(possible_list) ==
  CASE possible_list.t = "pylist" ->
         KQMLList([i \in 1..Len(possible_list.data) |->
                     listify(possible_list.data[i])])
    [] possible_list.t = "tuple" ->
         IF IsPair(possible_list)
           THEN KQMLList(<<listify(possible_list.data[1]), KQMLToken(<<".">>),
                           listify(possible_list.data[2])>>)
           ELSE KQMLList([i \in 1..Len(possible_list.data) |->
                            listify(possible_list.data[i])])
    [] possible_list.t = "str" ->
         IF HasSpace(possible_list.v)
           THEN IF possible_list.v[1] = "("
                   /\ possible_list.v[Len(possible_list.v)] = ")"
                  THEN LET terms == Split(SubSeq(possible_list.v, 2,
                                                 Len(possible_list.v) - 1))
                       IN KQMLList([i \in 1..Len(terms) |->
                                      listify(PyStr(terms[i]))])
                  ELSE KQMLString(possible_list.v)
           ELSE KQMLToken(possible_list.v)
    [] possible_list.t = "dict" ->
         KQMLList([i \in 1..Len(possible_list.data) |->
                     listify(possible_list.data[i])])
    [] possible_list.t = "bool" ->
         IF possible_list.b THEN KQMLToken(<<"t">>)
                            ELSE KQMLToken(<<"n", "i", "l">>)
    [] OTHER -> KQMLToken(Write(possible_list))   \* a KQML object: str() of it

\* convert_to_boolean(to_be_bool)
convert_to_boolean(to_be_bool) ==
  IF to_be_bool.t = "token" /\ to_be_bool.v = <<"n", "i", "l">> THEN FALSE
  ELSE IF to_be_bool.t = "list" /\ Len(to_be_bool.data) = 0 THEN FALSE
  ELSE TRUE

\* KQMLReader: the first position at or after i that holds no whitespace
RECURSIVE SkipSpace(_, _)
SkipSpace(s, i) ==
  IF i <= Len(s) /\ s[i] \in Whitespace THEN SkipSpace(s, i + 1) ELSE i

\* KQMLReader.read_token: up to the next whitespace or parenthesis
RECURSIVE TokenEnd(_, _)
TokenEnd(s, i) ==
  IF i > Len(s) \/ s[i] \in Whitespace \cup {"(", ")"}
    THEN i ELSE TokenEnd(s, i + 1)

\* KQMLReader.read_quotation: the position of the closing quote, 0 if none
RECURSIVE QuoteEnd(_, _)
QuoteEnd(s, i) ==
  IF i > Len(s) THEN 0 ELSE IF s[i] = Quote THEN i ELSE QuoteEnd(s, i + 1)

\* the reader failed: the text ended inside a list or a quotation
ReadError == [ok |-> FALSE, term |-> KQMLList(<<>>), pos |-> 0]

\* KQMLReader.read_list, after the opening parenthesis: the elements read
\* so far are acc, the next character is at position i
RECURSIVE ReadItems(_, _, _)
ReadItems(s, i, acc) ==
  LET j == SkipSpace(s, i) IN
    IF j > Len(s) THEN ReadError
    ELSE IF s[j] = ")" THEN [ok |-> TRUE, term |-> KQMLList(acc), pos |-> j + 1]
    ELSE IF s[j] = "("
      THEN LET sub == ReadItems(s, j + 1, <<>>) IN
             IF sub.ok THEN ReadItems(s, sub.pos, Append(acc, sub.term))
                       ELSE ReadError
    ELSE IF s[j] = Quote
      THEN LET e == QuoteEnd(s, j + 1) IN
             IF e = 0 THEN ReadError
             ELSE ReadItems(s, e + 1,
                            Append(acc, KQMLString(SubSeq(s, j + 1, e - 1))))
    ELSE LET e == TokenEnd(s, j) IN
           ReadItems(s, e, Append(acc, KQMLToken(SubSeq(s, j, e - 1))))

\* KQMLList.from_string(s): the list the text starts with
FromString(s) ==
  LET j == SkipSpace(s, 1) IN
    IF j > Len(s) \/ s[j] # "(" THEN ReadError ELSE ReadItems(s, j + 1, <<>>)

\* ------------------------------------------------------------------------
\* response_to_query
\* ------------------------------------------------------------------------
\* response_type None: the query named no response type
Unspecified == "None"

\* response_type = response_type is None or response_type == ':pattern'
PatternMode(response_type) ==
  response_type = Unspecified \/ response_type = ":pattern"

\* str(each[0]) == '?': the first character of a token, the first element
\* of a list
IsVariable(each) ==
  IF each.t = "list" THEN Write(each.data[1]) = <<"?">> ELSE each.v[1] = "?"

\* a binding with the result as car and the variable as cdr
ReplyWith_Swapped(each, pattern, response_type) ==
  IF response_type THEN pattern ELSE PyTuple(<<pattern, each>>)

\* reply_with = pattern if response_type else (each, pattern)
ReplyWith(each, pattern, response_type) ==
  IF response_type THEN pattern ELSE PyTuple(<<each, pattern>>)

\* a reply that leaves out every argument that is not a variable
CopiesArgument_Never(response_type) == FALSE

\* elif response_type: reply_content.append(each)
CopiesArgument(response_type) == response_type

\* the call raised IndexError, or the reply text could not be read back
NoReply == [ok |-> FALSE, content |-> KQMLList(<<>>)]

\* the loop over content.data[1:], from argument i (counted from 1) on;
\* result_index counts from 1 as well
RECURSIVE ReplyItems(_, _, _, _, _)
ReplyItems(args, i, results_list, result_index, response_type) ==
  IF i > Len(args) THEN [ok |-> TRUE, items |-> <<>>]
  ELSE
    LET each == args[i] IN
      IF IsVariable(each)
        THEN IF result_index > Len(results_list)
               THEN [ok |-> FALSE, items |-> <<>>]
               ELSE
                 LET pattern ==
                       IF i - 1 = Len(args)
                          /\ result_index - 1 < Len(results_list) - 1
                         THEN PyList(SubSeq(results_list, result_index,
                                            Len(results_list)))
                         ELSE results_list[result_index]
                     rest == ReplyItems(args, i + 1, results_list,
                                        result_index + 1, response_type)
                 IN [ok |-> rest.ok,
                     items |-> <<listify(ReplyWith(each, pattern,
                                                   response_type))>>
                                 \o rest.items]
        ELSE
          LET rest == ReplyItems(args, i + 1, results_list, result_index,
                                 response_type)
          IN IF CopiesArgument(response_type)
               THEN [ok |-> rest.ok, items |-> <<each>> \o rest.items]
               ELSE rest

\* response_to_query(msg, content, results, response_type): the content of
\* the tell it builds as text and reads back with performative()
response_to_query(content, results, response_type) ==
  LET mode == PatternMode(response_type)
      results_list == IF results.t = "pylist" THEN results.data ELSE <<results>>
      walk == ReplyItems(Tail(content.data), 1, results_list, 1, mode)
      reply_content ==
        KQMLList(<<KQMLToken(Write(content.data[1]))>> \o walk.items)
      reply_msg == <<"(", "tell", Space, ":sender", Space, name, Space,
                     ":content", Space>> \o Write(reply_content) \o <<")">>
      read == FromString(reply_msg)
  IN IF walk.ok /\ read.ok /\ Len(read.term.data) >= 5
       THEN [ok |-> TRUE, content |-> read.term.data[5]]
       ELSE NoReply

\* ------------------------------------------------------------------------
\* connect / send / send_generic, one statement per step, for send() call k
\* ------------------------------------------------------------------------
\* the call ends (returns or raises); register's call ends the constructor
Finish(k, how) ==
  /\ pcS' = [pcS EXCEPT ![k] = how]
  /\ pcMain' = IF k = MainCaller
                 THEN (IF how = "returned" THEN "constructed" ELSE "failed")
                 ELSE pcMain

Step(k, next) ==
  /\ pcS' = [pcS EXCEPT ![k] = next]
  /\ pcMain' = pcMain

\* a handler running on a dispatch worker calls send(msg)
SendCall(k) ==
  /\ k \in WorkerCallers
  /\ pcS[k] = "idle"
  /\ Step(k, "c_sock")
  /\ UNCHANGED <<send_socket, out, myOut, sock>>

\* connect: self.send_socket = socket()
ConnSocket(k) ==
  /\ pcS[k] = "c_sock"
  /\ send_socket' = k
  /\ sock' = [sock EXCEPT ![k].created = TRUE]
  /\ Step(k, "c_connect")
  /\ UNCHANGED <<out, myOut>>

\* connect: self.send_socket.connect((self.host, self.port))
ConnConnect(k) ==
  /\ pcS[k] = "c_connect"
  /\ \/ /\ send_socket = None          \* AttributeError, not an OSError
        /\ Finish(k, "raised_attr")
        /\ UNCHANGED sock
     \/ /\ send_socket # None
        /\ ~sock[send_socket].connected
        /\ sock[send_socket].closes = 0
        /\ sock' = [sock EXCEPT ![send_socket].connected = TRUE]
        /\ Step(k, "c_out")
     \/ /\ send_socket # None          \* OSError: logged, falls to the assert
        /\ Step(k, "c_assert")
        /\ UNCHANGED sock
  /\ UNCHANGED <<send_socket, out, myOut>>

\* connect: self.out = BufferedWriter(SocketIO(self.send_socket, 'w'))
ConnOut(k) ==
  /\ pcS[k] = "c_out"
  /\ out' = IF send_socket = None THEN BadWriter ELSE send_socket
  /\ Step(k, "c_assert")
  /\ UNCHANGED <<send_socket, myOut, sock>>

\* connect: assert self.out is not None
ConnAssert(k) ==
  /\ pcS[k] = "c_assert"
  /\ IF out = None THEN Finish(k, "raised_assert") ELSE Step(k, "g_write")
  /\ UNCHANGED <<send_socket, out, myOut, sock>>

\* send_generic(msg, self.out): msg.write(out), IOError swallowed.
\* The registration message fits the writer's buffer, so its write only
\* copies into the buffer; a longer message can hit the socket and fail.
GenWrite(k) ==
  /\ pcS[k] = "g_write"
  /\ \/ /\ out = None                  \* msg.write(None): AttributeError
        /\ Finish(k, "raised_attr")
        /\ UNCHANGED <<myOut, sock>>
     \/ /\ out # None
        /\ myOut' = [myOut EXCEPT ![k] = out]
        /\ sock' = IF out = BadWriter THEN sock
                   ELSE [sock EXCEPT ![out].msgs = Append(@, MsgOf(k))]
        /\ Step(k, "g_flush")
     \/ /\ out # None                  \* IOError caught and logged
        /\ k # MainCaller
        /\ myOut' = [myOut EXCEPT ![k] = out]
        /\ Step(k, "g_flush")
        /\ UNCHANGED sock
  /\ UNCHANGED <<send_socket, out>>

\* send_generic: out.write(b'\n'); out.flush()  (nothing is caught here)
GenFlush(k) ==
  /\ pcS[k] = "g_flush"
  /\ \/ /\ myOut[k] = BadWriter
        /\ Finish(k, "raised_attr")
     \/ /\ myOut[k] # BadWriter
        /\ sock[myOut[k]].connected
        /\ sock[myOut[k]].closes = 0
        /\ sock[myOut[k]].shutdowns = 0
        /\ Step(k, "s_shutdown")
     \/ /\ myOut[k] # BadWriter         \* low-level I/O error while flushing
        /\ Finish(k, "raised_io")
  /\ UNCHANGED <<send_socket, out, myOut, sock>>

\* send: self.send_socket.shutdown(SHUT_RDWR)
SendShutdown(k) ==
  /\ pcS[k] = "s_shutdown"
  /\ \/ /\ send_socket = None
        /\ Finish(k, "raised_attr")
        /\ UNCHANGED sock
     \/ /\ send_socket # None
        /\ sock[send_socket].connected
        /\ sock[send_socket].closes = 0
        /\ sock' = [sock EXCEPT ![send_socket].shutdowns = @ + 1]
        /\ Step(k, "s_close")
     \/ /\ send_socket # None
        /\ \/ ~sock[send_socket].connected
           \/ sock[send_socket].closes > 0
           \/ sock[send_socket].shutdowns > 0
        /\ Finish(k, "raised_os")
        /\ UNCHANGED sock
  /\ UNCHANGED <<send_socket, out, myOut>>

\* send: self.send_socket.close()
SendClose(k) ==
  /\ pcS[k] = "s_close"
  /\ IF send_socket = None
       THEN Finish(k, "raised_attr") /\ UNCHANGED sock
       ELSE /\ sock' = [sock EXCEPT ![send_socket].closes = @ + 1]
            /\ Step(k, "s_clear1")
  /\ UNCHANGED <<send_socket, out, myOut>>

\* send: self.send_socket = None
SendClear1(k) ==
  /\ pcS[k] = "s_clear1"
  /\ send_socket' = None
  /\ Step(k, "s_clear2")
  /\ UNCHANGED <<out, myOut, sock>>

\* send: self.out = None, and the call returns
SendClear2(k) ==
  /\ pcS[k] = "s_clear2"
  /\ out' = None
  /\ Finish(k, "returned")
  /\ UNCHANGED <<send_socket, myOut, sock>>

SendStep(k) ==
  \/ ConnSocket(k) \/ ConnConnect(k) \/ ConnOut(k) \/ ConnAssert(k)
  \/ GenWrite(k) \/ GenFlush(k)
  \/ SendShutdown(k) \/ SendClose(k) \/ SendClear1(k) \/ SendClear2(k)

\* ------------------------------------------------------------------------
\* init_check_companions (the factory that discovers a running host)
\* ------------------------------------------------------------------------
\* discovery runs for every host when no port was supplied
RunsDiscovery_AnyHost(h, p) == p = None

\* if not port and (True if not host else host in LOCALHOST_DEFS)
RunsDiscovery(h, p) == p = None /\ (h = NoHost \/ h \in LOCALHOST_DEFS)

\* init_check_companions: repack the arguments, discover a port when none
\* was supplied for a local host, then call cls(**kwargs).  An exception of
\* check_for_companions propagates and cls is never called.
init_check_companions ==
  /\ pcMain = "factory"
  /\ LET discover == RunsDiscovery(argHost, argPort)
         found == check_for_companions(verify_port)
     IN /\ got' = IF discover
                    THEN Lookup("check_for_companions", "", None,
                                verify_port, found)
                    ELSE got
        /\ IF discover /\ found.kind # "return"
             THEN /\ pcMain' = "factory_raised"
                  /\ UNCHANGED <<host, port>>
             ELSE /\ host' = IF argHost # NoHost THEN argHost ELSE DefaultHost
                  /\ port' = IF argPort # None THEN argPort
                             ELSE IF discover /\ found.port # None
                               THEN found.port
                               ELSE DefaultPort
                  /\ pcMain' = "new"
  /\ UNCHANGED <<helperCall, listener_port, files, processes, qrg, hostProc,
                 companions_process, verify_port, argHost, argPort, exits,
                 listen_socket, listenVars, sharedVars, connVars, sendVars,
                 histVars>>

\* ------------------------------------------------------------------------
\* ControlledCompanionsKQMLModule.__init__ (launches its own host)
\* ------------------------------------------------------------------------
\* a constructor that leaves an existing portnum.dat in place
LaunchUnlink_Keep ==
  /\ pcMain = "l_exists"
  /\ pcMain' = "l_spawn"
  /\ UNCHANGED <<helperCall, cfgVars, hostVars, exits, listen_socket, listenVars,
                 sharedVars, connVars, sendVars, histVars>>

\* if portnum_path.exists(): portnum_path.unlink()
LaunchUnlink ==
  /\ pcMain = "l_exists"
  /\ files' = [files EXCEPT ![LaunchDir] = NoFile]
  /\ pcMain' = "l_spawn"
  /\ UNCHANGED <<helperCall, cfgVars, processes, qrg, hostProc, companions_process,
                 verify_port, argHost, argPort, got, exits, listen_socket,
                 listenVars, sharedVars, connVars, sendVars, histVars>>

\* self.companions_process = Popen(str(exe_location)); Popen raises OSError
\* when the executable cannot be started
LaunchSpawn ==
  /\ pcMain = "l_spawn"
  /\ \/ /\ companions_process' = ChildPid
        /\ hostProc' = "running"
        /\ pcMain' = "l_poll"
     \/ /\ pcMain' = "failed"
        /\ UNCHANGED <<companions_process, hostProc>>
  /\ UNCHANGED <<helperCall, cfgVars, files, processes, qrg, verify_port, argHost,
                 argPort, got, exits, listen_socket, listenVars, sharedVars,
                 connVars, sendVars, histVars>>

\* the records a launched host may write: with or without a port key, under
\* the pid Popen returned or under the pid of a process it started itself
HostRecords == {Record(p, q) : p \in {PortIn(LaunchDir), Absent},
                              q \in {ChildPid, StalePid}}

\* the launched host writes its portnum.dat (what the poll loop waits for)
HostWritesPort ==
  /\ hostProc = "running"
  /\ companions_process # None
  /\ files[LaunchDir].kind = "absent"
  /\ \E r \in HostRecords : files' = [files EXCEPT ![LaunchDir] = r]
  /\ UNCHANGED <<helperCall, cfgVars, processes, qrg, hostProc, companions_process,
                 verify_port, argHost, argPort, got, exits, pcMain,
                 listen_socket, listenVars, sharedVars, connVars, sendVars,
                 histVars>>

\* the launched host exits at once, before it has written a portnum.dat
HostExits ==
  /\ hostProc = "running"
  /\ companions_process # None
  /\ files[LaunchDir].kind = "absent"
  /\ hostProc' = "exited"
  /\ UNCHANGED <<helperCall, cfgVars, files, processes, qrg, companions_process,
                 verify_port, argHost, argPort, got, exits, pcMain,
                 listen_socket, listenVars, sharedVars, connVars, sendVars,
                 histVars>>

\* a loop that gives up waiting whether or not the file exists
LaunchPoll_NoWait ==
  /\ pcMain = "l_poll"
  /\ pcMain' = "l_read"
  /\ UNCHANGED <<helperCall, cfgVars, hostVars, exits, listen_socket, listenVars,
                 sharedVars, connVars, sendVars, histVars>>

\* while not portnum_path.exists(): sleep(1)
LaunchPoll ==
  /\ pcMain = "l_poll"
  /\ files[LaunchDir].kind # "absent"
  /\ pcMain' = "l_read"
  /\ UNCHANGED <<helperCall, cfgVars, hostVars, exits, listen_socket, listenVars,
                 sharedVars, connVars, sendVars, histVars>>

\* kwargs['port'] = get_port(portnum_path, self.companions_process.pid,
\*                           verify_port); super().__init__(**kwargs)
LaunchRead ==
  /\ pcMain = "l_read"
  /\ LET r == get_port(LaunchDir, companions_process, verify_port) IN
       /\ got' = Lookup("launch", LaunchDir, companions_process,
                        verify_port, r)
       /\ IF r.kind # "return"
            THEN pcMain' = "failed" /\ UNCHANGED port
            ELSE pcMain' = "new" /\ port' = r.port
  /\ UNCHANGED <<helperCall, host, listener_port, files, processes, qrg, hostProc,
                 companions_process, verify_port, argHost, argPort, exits,
                 listen_socket, listenVars, sharedVars, connVars, sendVars,
                 histVars>>

\* ------------------------------------------------------------------------
\* __init__ and register (the constructing thread)
\* ------------------------------------------------------------------------
\* __init__: the three asserts on host, port and listener_port
Construct ==
  /\ pcMain = "new"
  /\ pcMain' = IF valid_ip(host) /\ valid_port(port) /\ valid_port(listener_port)
                 THEN "bind" ELSE "failed"
  /\ UNCHANGED <<helperCall, cfgVars, hostVars, exits, listen_socket, listenVars, sharedVars, connVars,
                 sendVars, histVars>>

\* __init__: listen_socket = socket(); bind; listen(10); ready = True;
\* listener = Thread(...); state = 'idle'.  bind raises if the port is taken.
CreateListener ==
  /\ pcMain = "bind"
  /\ \/ /\ listen_socket' = "listening"
        /\ ready' = TRUE
        /\ state' = "idle"
        /\ pcMain' = "start"
     \/ /\ pcMain' = "failed"
        /\ UNCHANGED <<listen_socket, ready, state>>
  /\ UNCHANGED <<helperCall, cfgVars, hostVars, exits, listenVars, dispatcher, local_out, connVars,
                 sendVars, histVars>>

\* __init__: self.listener.start()
StartListener ==
  /\ pcMain = "start"
  /\ pcL = "unstarted"
  /\ pcL' = "check"
  /\ pcMain' = "register"
  /\ UNCHANGED <<helperCall, cfgVars, hostVars, exits, listen_socket, connection, sharedVars, connVars,
                 sendVars, histVars>>

\* __init__: self.register(), which calls self.send(performative(...))
register ==
  /\ pcMain = "register"
  /\ pcS[MainCaller] = "idle"
  /\ Step(MainCaller, "c_sock")
  /\ UNCHANGED <<helperCall, cfgVars, hostVars, exits, listen_socket, listenVars, sharedVars, connVars,
                 send_socket, out, myOut, sock, histVars>>

\* the steps of register's send, taken by the constructing thread
RegisterSend ==
  /\ pcMain = "register"
  /\ SendStep(MainCaller)
  /\ UNCHANGED <<helperCall, cfgVars, hostVars, exits, listen_socket, listenVars, sharedVars, connVars,
                 histVars>>

\* ------------------------------------------------------------------------
\* Peers
\* ------------------------------------------------------------------------
\* a peer connects to the listener port; the kernel queues it (listen(10))
Arrive(c) ==
  /\ listen_socket = "listening"
  /\ c <= peers
  /\ conn[c] = "none"
  /\ \A d \in Conns : d < c => conn[d] # "none"
  /\ Cardinality(Pending) < Backlog
  /\ conn' = [conn EXCEPT ![c] = "pending"]
  /\ UNCHANGED <<helperCall, cfgVars, hostVars, exits, pcMain, listen_socket, listenVars, sharedVars,
                 shut, lastReply, peers, sendVars, histVars>>

\* ------------------------------------------------------------------------
\* listen (the listener thread)
\* ------------------------------------------------------------------------
\* while self.ready:
ListenCheck ==
  /\ pcL = "check"
  /\ pcL' = IF ready THEN "accept" ELSE "drain"
  /\ UNCHANGED <<helperCall, cfgVars, hostVars, exits, pcMain, listen_socket, connection, sharedVars,
                 connVars, sendVars, histVars>>

\* connection, _ = self.listen_socket.accept();
\* self.local_out = BufferedWriter(SocketIO(connection, 'w'))
Accept ==
  /\ pcL = "accept"
  /\ Pending # {}
  /\ LET c == MinOf(Pending) IN
       /\ connection' = c
       /\ conn' = [conn EXCEPT ![c] = "accepted"]
       /\ local_out' = c
  /\ pcL' = "setdisp"
  /\ UNCHANGED <<helperCall, cfgVars, hostVars, exits, pcMain, listen_socket, ready, dispatcher, state,
                 shut, lastReply, peers, sendVars, histVars>>

\* self.dispatcher = KQMLDispatcher(self, read_input, self.name)
SetDispatcher ==
  /\ pcL = "setdisp"
  /\ dispatcher' = connection
  /\ pcL' = "submit"
  /\ UNCHANGED <<helperCall, cfgVars, hostVars, exits, pcMain, listen_socket, connection, ready, local_out,
                 state, connVars, sendVars, histVars>>

\* executor.submit(self.dispatcher.start): never blocks, the work item is
\* queued behind the pool's workers
Submit ==
  /\ pcL = "submit"
  /\ conn' = [conn EXCEPT ![connection] = "queued"]
  /\ pcL' = "setstate"
  /\ UNCHANGED <<helperCall, cfgVars, hostVars, exits, pcMain, listen_socket, connection, sharedVars,
                 shut, lastReply, peers, sendVars, histVars>>

\* self.state = 'dispatching'
SetState ==
  /\ pcL = "setstate"
  /\ state' = "dispatching"
  /\ pcL' = "check"
  /\ UNCHANGED <<helperCall, cfgVars, hostVars, exits, pcMain, listen_socket, connection, ready,
                 dispatcher, local_out, connVars, sendVars, histVars>>

\* leaving the with block: executor.shutdown(wait=True), then listen returns
ListenExit ==
  /\ pcL = "drain"
  /\ Queued = {}
  /\ Running = {}
  /\ pcL' = "terminated"
  /\ UNCHANGED <<helperCall, cfgVars, hostVars, exits, pcMain, listen_socket, connection, sharedVars,
                 connVars, sendVars, histVars>>

\* ------------------------------------------------------------------------
\* The dispatch pool and KQMLDispatcher.start on one connection
\* ------------------------------------------------------------------------
\* a pool that starts a thread for every submitted work item
PoolHasFreeWorker_NoBound == TRUE

\* a pool that counts its workers off by one
PoolHasFreeWorker_OffByOne == Cardinality(Running) <= max_workers

\* ThreadPoolExecutor(max_workers=5): a work item starts only on a free worker
PoolHasFreeWorker == Cardinality(Running) < max_workers

\* a free worker takes the oldest queued work item (dispatcher.start)
StartUnit(c) ==
  /\ Queued # {}
  /\ c = MinOf(Queued)
  /\ PoolHasFreeWorker
  /\ conn' = [conn EXCEPT ![c] = "read1"]
  /\ UNCHANGED <<helperCall, cfgVars, hostVars, exits, pcMain, listen_socket, listenVars, sharedVars,
                 shut, lastReply, peers, sendVars, histVars>>

\* the write side a reply on the local port goes to: send_on_local_port
\* passes self.local_out to send_generic
ReplySink(c) == local_out

\* the unit reads the peer's message (a ping) and runs
\* receive_other_performative -> reply_on_local_port -> send_on_local_port
HandleMsg(c) ==
  /\ conn[c] = "read1"
  /\ ~shut[c]
  /\ lastReply' = [msg |-> c, sink |-> ReplySink(c)]
  /\ conn' = [conn EXCEPT ![c] = "read2"]
  /\ UNCHANGED <<helperCall, cfgVars, hostVars, exits, pcMain, listen_socket, listenVars, sharedVars,
                 shut, peers, sendVars, histVars>>

\* the unit reads end-of-stream and runs receive_eof:
\* self.dispatcher.shutdown() on whatever the shared field holds
\* (AttributeError when it holds None, which ends the work item),
\* self.dispatcher = None, self.state = 'idle'
receive_eof(c) ==
  /\ conn[c] = "read2"
  /\ ~shut[c]
  /\ conn' = [conn EXCEPT ![c] = "done"]
  /\ IF dispatcher = None
       THEN UNCHANGED <<shut, dispatcher, state>>
       ELSE /\ shut' = [shut EXCEPT ![dispatcher] = TRUE]
            /\ dispatcher' = None
            /\ state' = "idle"
  /\ UNCHANGED <<helperCall, cfgVars, hostVars, exits, pcMain, listen_socket, listenVars, ready, local_out,
                 lastReply, peers, sendVars, histVars>>

\* the unit's reader was closed by a shutdown() issued elsewhere: its read
\* fails and start returns without calling receive_eof
Abort(c) ==
  /\ conn[c] \in {"read1", "read2"}
  /\ shut[c]
  /\ conn' = [conn EXCEPT ![c] = "done"]
  /\ UNCHANGED <<helperCall, cfgVars, hostVars, exits, pcMain, listen_socket, listenVars, sharedVars,
                 shut, lastReply, peers, sendVars, histVars>>

\* ------------------------------------------------------------------------
\* exit (called by the owner of the constructed agent)
\* ------------------------------------------------------------------------
Arrived == {c \in Conns : conn[c] # "none"}

\* self.ready = False
ExitClear ==
  /\ \/ pcMain = "constructed"
     \/ pcMain = "exited" /\ exits < NExits
  /\ ready' = FALSE
  /\ readyClearedAt' = IF readyClearedAt < 0 THEN Cardinality(Arrived)
                                              ELSE readyClearedAt
  /\ pcMain' = "x_check"
  /\ UNCHANGED <<helperCall, cfgVars, hostVars, exits, listen_socket, listenVars, dispatcher, local_out,
                 state, connVars, sendVars, exitInFlight>>

\* if self.dispatcher is not None:
ExitCheck ==
  /\ pcMain = "x_check"
  /\ IF dispatcher # None
       THEN pcMain' = "x_shutdown" /\ UNCHANGED exitInFlight
       ELSE pcMain' = "x_join" /\ exitInFlight' = Running
  /\ UNCHANGED <<helperCall, cfgVars, hostVars, exits, listen_socket, listenVars, sharedVars, connVars,
                 sendVars, readyClearedAt>>

\* the dispatchers exit signals: the one the shared field holds
ExitTargets == {dispatcher}

\* a shutdown that raises when the dispatcher was already shut down
ExitShutdown_Once ==
  /\ pcMain = "x_shutdown"
  /\ IF dispatcher = None \/ shut[dispatcher]
       THEN /\ pcMain' = "exit_raised"
            /\ UNCHANGED <<shut, exitInFlight>>
       ELSE /\ shut' = [c \in Conns |-> shut[c] \/ c \in ExitTargets]
            /\ exitInFlight' = Running
            /\ pcMain' = "x_join"
  /\ UNCHANGED <<helperCall, cfgVars, hostVars, exits, listen_socket, listenVars, sharedVars, conn,
                 lastReply, peers, sendVars, readyClearedAt>>

\* self.dispatcher.shutdown()
ExitShutdown ==
  /\ pcMain = "x_shutdown"
  /\ IF dispatcher = None
       THEN /\ pcMain' = "exit_raised"
            /\ UNCHANGED <<shut, exitInFlight>>
       ELSE /\ shut' = [c \in Conns |-> shut[c] \/ c \in ExitTargets]
            /\ exitInFlight' = Running
            /\ pcMain' = "x_join"
  /\ UNCHANGED <<helperCall, cfgVars, hostVars, exits, listen_socket, listenVars, sharedVars, conn,
                 lastReply, peers, sendVars, readyClearedAt>>

\* a join that returns without waiting for the listener thread
ExitJoin_NoWait ==
  /\ pcMain = "x_join"
  /\ IF companions_process # None
       THEN pcMain' = "x_terminate" /\ UNCHANGED exits
       ELSE pcMain' = "exited" /\ exits' = exits + 1
  /\ UNCHANGED <<helperCall, cfgVars, hostVars, listen_socket, listenVars, sharedVars,
                 connVars, sendVars, histVars>>

\* self.listener.join(); CompanionsKQMLModule.exit returns, to its caller
\* or to ControlledCompanionsKQMLModule.exit
ExitJoin ==
  /\ pcMain = "x_join"
  /\ pcL = "terminated"
  /\ IF companions_process # None
       THEN pcMain' = "x_terminate" /\ UNCHANGED exits
       ELSE pcMain' = "exited" /\ exits' = exits + 1
  /\ UNCHANGED <<helperCall, cfgVars, hostVars, listen_socket, listenVars, sharedVars,
                 connVars, sendVars, histVars>>

\* ControlledCompanionsKQMLModule.exit:
\* if self.companions_process: self.companions_process.terminate()
ExitTerminate ==
  /\ pcMain = "x_terminate"
  /\ hostProc' = "terminated"
  /\ pcMain' = "exited"
  /\ exits' = exits + 1
  /\ UNCHANGED <<helperCall, cfgVars, files, processes, qrg, companions_process,
                 verify_port, argHost, argPort, got, listen_socket,
                 listenVars, sharedVars, connVars, sendVars, histVars>>

\* ------------------------------------------------------------------------
\* Specification of one agent: construction, listening, dispatch, exit
\* ------------------------------------------------------------------------
Hosts == {"localhost", "not-an-ip"}
Ports == {DefaultPort, PortLow}
ListenerPorts == {DefaultListenerPort, PortHigh}

InitFields ==
  /\ listen_socket = "none"
  /\ pcL = "unstarted"
  /\ connection = None
  /\ ready = FALSE
  /\ dispatcher = None
  /\ local_out = None
  /\ state = "idle"
  /\ conn = [c \in Conns |-> "none"]
  /\ shut = [c \in Conns |-> FALSE]
  /\ lastReply = [msg |-> None, sink |-> None]
  /\ send_socket = None
  /\ out = None
  /\ pcS = [k \in Callers |-> "idle"]
  /\ myOut = [k \in Callers |-> None]
  /\ sock = [k \in Callers |-> NewSock]
  /\ readyClearedAt = -1
  /\ exitInFlight = {}

\* nothing has been looked up, launched or exited yet
InitHost ==
  /\ processes = <<>>
  /\ qrg = FALSE
  /\ companions_process = None
  /\ got = NoCall
  /\ exits = 0

\* a record an earlier run of the host left in exe_path
StaleRecord == Record(StalePort, StalePid)

\* CompanionsKQMLModule(host, port, listener_port): the host runs already
InitPlain ==
  /\ peers = NConn
  /\ pcMain = "new"
  /\ files = [d \in Dirs |-> NoFile]
  /\ hostProc = "running"
  /\ verify_port = FALSE

\* ControlledCompanionsKQMLModule(exe_path, verify_port=..., **kwargs)
InitLaunch ==
  /\ peers = NLaunchPeers
  /\ pcMain = "l_exists"
  /\ \E f \in {NoFile, StaleRecord} :
       files = [d \in Dirs |-> IF d = LaunchDir THEN f ELSE NoFile]
  /\ hostProc = "none"
  /\ verify_port \in BOOLEAN

Init ==
  /\ host \in Hosts
  /\ port \in Ports
  /\ listener_port \in ListenerPorts
  /\ argHost = host
  /\ argPort = port
  /\ InitFields
  /\ InitHost
  /\ (InitPlain \/ InitLaunch)
  /\ helperCall = NoHelperCall

Next ==
  \/ LaunchUnlink
  \/ LaunchSpawn
  \/ HostWritesPort
  \/ HostExits
  \/ LaunchPoll
  \/ LaunchRead
  \/ Construct
  \/ CreateListener
  \/ StartListener
  \/ register
  \/ RegisterSend
  \/ \E c \in Conns : Arrive(c)
  \/ ListenCheck
  \/ Accept
  \/ SetDispatcher
  \/ Submit
  \/ SetState
  \/ ListenExit
  \/ \E c \in Conns : StartUnit(c)
  \/ \E c \in Conns : HandleMsg(c)
  \/ \E c \in Conns : receive_eof(c)
  \/ \E c \in Conns : Abort(c)
  \/ ExitClear
  \/ ExitCheck
  \/ ExitShutdown
  \/ ExitJoin
  \/ ExitTerminate

Spec == Init /\ [][Next]_vars

\* ------------------------------------------------------------------------
\* Specification of the accept / dispatch loop of a constructed agent
\* ------------------------------------------------------------------------
\* the socket register's send opened, used and closed during construction
UsedSock == [created |-> TRUE, connected |-> TRUE,
             msgs |-> <<MsgOf(MainCaller)>>,
             shutdowns |-> 1, closes |-> 1]

\* the agent as __init__ leaves it when it returns
Constructed ==
  /\ host = "localhost"
  /\ port = DefaultPort
  /\ listener_port = DefaultListenerPort
  /\ argHost = host
  /\ argPort = port
  /\ InitHost
  /\ files = [d \in Dirs |-> NoFile]
  /\ hostProc = "running"
  /\ verify_port = FALSE
  /\ pcMain = "constructed"
  /\ listen_socket = "listening"
  /\ pcL = "check"
  /\ connection = None
  /\ ready = TRUE
  /\ dispatcher = None
  /\ local_out = None
  /\ state = "idle"
  /\ conn = [c \in Conns |-> "none"]
  /\ shut = [c \in Conns |-> FALSE]
  /\ lastReply = [msg |-> None, sink |-> None]
  /\ send_socket = None
  /\ out = None
  /\ pcS = [k \in Callers |-> IF k = MainCaller THEN "returned" ELSE "idle"]
  /\ myOut = [k \in Callers |-> None]
  /\ sock = [k \in Callers |-> IF k = MainCaller THEN UsedSock ELSE NewSock]
  /\ readyClearedAt = -1
  /\ exitInFlight = {}

InitPool ==
  /\ peers = NPool
  /\ helperCall = NoHelperCall
  /\ Constructed

NextPool ==
  \/ \E c \in Conns : Arrive(c)
  \/ ListenCheck
  \/ Accept
  \/ SetDispatcher
  \/ Submit
  \/ SetState
  \/ \E c \in Conns : StartUnit(c)
  \/ \E c \in Conns : HandleMsg(c)
  \/ \E c \in Conns : receive_eof(c)
  \/ \E c \in Conns : Abort(c)

PoolSpec == InitPool /\ [][NextPool]_vars

\* ------------------------------------------------------------------------
\* Specification of send() calls issued by handlers on dispatch workers
\* ------------------------------------------------------------------------
\* the statements of send() call k, run by the worker that issued it
WorkerSend(k) ==
  /\ k \in WorkerCallers
  /\ SendStep(k)
  /\ UNCHANGED <<helperCall, cfgVars, hostVars, exits, listen_socket, listenVars, sharedVars, connVars,
                 histVars>>

\* a handler (reply, error_reply, response_to_query) calls send
HandlerSends(k) ==
  /\ SendCall(k)
  /\ UNCHANGED <<helperCall, cfgVars, hostVars, exits, listen_socket, listenVars, sharedVars, connVars,
                 histVars>>

InitSend ==
  /\ peers = 0
  /\ helperCall = NoHelperCall
  /\ Constructed

NextSend ==
  \/ \E k \in WorkerCallers : HandlerSends(k)
  \/ \E k \in WorkerCallers : WorkerSend(k)

SendSpec == InitSend /\ [][NextSend]_vars

\* ------------------------------------------------------------------------
\* Specification of exit() on a constructed agent, with fair scheduling
\* ------------------------------------------------------------------------
InitExit ==
  /\ peers = NExitPeers
  /\ helperCall = NoHelperCall
  /\ Constructed

\* what the threads of the agent do: the listener, the workers, exit
AgentNext ==
  \/ ListenCheck
  \/ Accept
  \/ SetDispatcher
  \/ Submit
  \/ SetState
  \/ ListenExit
  \/ \E c \in Conns : StartUnit(c)
  \/ \E c \in Conns : HandleMsg(c)
  \/ \E c \in Conns : receive_eof(c)
  \/ \E c \in Conns : Abort(c)
  \/ ExitCheck
  \/ ExitShutdown
  \/ ExitJoin

NextExit ==
  \/ \E c \in Conns : Arrive(c)
  \/ ExitClear
  \/ AgentNext

\* every thread of the agent that can take a step eventually takes one, and
\* every peer that sent a message eventually disconnects; whether a peer
\* connects, and whether the owner calls exit, is up to the environment
ExitSpec == InitExit /\ [][NextExit]_vars /\ WF_vars(AgentNext)

\* ------------------------------------------------------------------------
\* Specification of get_port over port files, pids and the verify flag
\* ------------------------------------------------------------------------
\* what the file at portnum_path may hold
PortContents ==
  {NoFile, Malformed}
    \cup {Record(p, q) : p \in {Absent, PortIn(LaunchDir), StalePort},
                         q \in {Absent, ChildPid, StalePid}}

InitPort ==
  /\ host = DefaultHost
  /\ port = DefaultPort
  /\ listener_port = DefaultListenerPort
  /\ argHost = NoHost
  /\ argPort = None
  /\ peers = 0
  /\ pcMain = "lookup"
  /\ helperCall = NoHelperCall
  /\ InitFields
  /\ InitHost
  /\ \E f \in PortContents :
       files = [d \in Dirs |-> IF d = LaunchDir THEN f ELSE NoFile]
  /\ hostProc = "running"
  /\ verify_port \in BOOLEAN

\* a caller asks get_port for the port of the record at LaunchDir
GetPort ==
  /\ pcMain = "lookup"
  /\ \E q \in {ChildPid, StalePid, PidOf(COMPANIONS_EXES[1]),
               PidOf(COMPANIONS_EXES[2])} :
       got' = Lookup("get_port", LaunchDir, q, verify_port,
                     get_port(LaunchDir, q, verify_port))
  /\ pcMain' = "looked_up"
  /\ UNCHANGED <<helperCall, cfgVars, files, processes, qrg, hostProc,
                 companions_process, verify_port, argHost, argPort, exits,
                 listen_socket, listenVars, sharedVars, connVars, sendVars,
                 histVars>>

NextPort == GetPort

PortSpec == InitPort /\ [][NextPort]_vars

\* ------------------------------------------------------------------------
\* Specification of init_check_companions over process tables and files
\* ------------------------------------------------------------------------
\* process tables of up to NProcs processes with distinct names, in every
\* enumeration order
ProcTables ==
  UNION {{[i \in 1..n |-> ProcessOf(s[i])] :
            s \in {t \in [1..n -> ProcNames] :
                     \A i, j \in 1..n : i # j => t[i] # t[j]}}
         : n \in 0..NProcs}

\* what the portnum.dat of directory d may hold: nothing, the record of the
\* process that runs there, a record under another pid, or one without port
DiscContents(d, q) ==
  {NoFile, Record(PortIn(d), q), Record(PortIn(d), StalePid),
   Record(Absent, q)}

InitDisc ==
  /\ host = DefaultHost
  /\ port = DefaultPort
  /\ listener_port = DefaultListenerPort
  /\ argHost \in {NoHost, "localhost", "10.0.0.5"}
  /\ argPort \in {None, SuppliedPort}
  /\ peers = 0
  /\ pcMain = "factory"
  /\ InitFields
  /\ helperCall = NoHelperCall
  /\ companions_process = None
  /\ got = NoCall
  /\ exits = 0
  /\ processes \in ProcTables
  /\ qrg \in BOOLEAN
  /\ \E m \in DiscContents(MicroDir, PidOf(COMPANIONS_EXES[1])),
        v \in DiscContents(ServerDir, PidOf(COMPANIONS_EXES[2])),
        a \in DiscContents(QrgDir, PidOf(Allegro)) :
       files = [d \in Dirs |-> CASE d = MicroDir -> m
                                 [] d = ServerDir -> v
                                 [] d = QrgDir -> a
                                 [] OTHER -> NoFile]
  /\ hostProc = "running"
  /\ verify_port \in BOOLEAN

NextDisc ==
  \/ init_check_companions
  \/ Construct

DiscSpec == InitDisc /\ [][NextDisc]_vars

\* ------------------------------------------------------------------------
\* Specification of __init__ over hosts, ports and listener ports
\* ------------------------------------------------------------------------
\* ports at, next to and between the two ends of the accepted range
CtorPorts == {PortLow - 1, PortLow, PortLow + 1, DefaultPort,
              PortHigh - 1, PortHigh, PortHigh + 1}

InitCtor ==
  /\ host \in LOCALHOST_DEFS \cup ValidIPLiterals \cup {"not-an-ip", ""}
  /\ port \in CtorPorts
  /\ listener_port \in CtorPorts \cup {DefaultListenerPort}
  /\ argHost = host
  /\ argPort = port
  /\ peers = 0
  /\ pcMain = "new"
  /\ helperCall = NoHelperCall
  /\ InitFields
  /\ InitHost
  /\ files = [d \in Dirs |-> NoFile]
  /\ hostProc = "running"
  /\ verify_port = FALSE

NextCtor ==
  \/ Construct
  \/ CreateListener
  \/ StartListener
  \/ register
  \/ RegisterSend

CtorSpec == InitCtor /\ [][NextCtor]_vars

\* ------------------------------------------------------------------------
\* Specification of response_to_query over queries, results and modes
\* ------------------------------------------------------------------------
\* every sequence over S of length at most n
SeqsUpTo(S, n) == UNION {[1..k -> S] : k \in 0..n}

\* arguments of a query: two variables, a constant, and a compound term
\* that holds a variable
QueryArgs == {KQMLToken(<<"?", "x">>), KQMLToken(<<"?", "y">>),
              KQMLToken(<<"c">>),
              KQMLList(<<KQMLToken(<<"c">>), KQMLToken(<<"?", "x">>)>>)}
\* results of a query
QueryResults == {PyStr(<<"a">>), PyStr(<<"b">>)}
\* the send() call the reply of the query is sent with
QueryCaller == 2

InitQuery ==
  /\ peers = 0
  /\ Constructed
  /\ \E args \in SeqsUpTo(QueryArgs, MaxArgs),
        results \in {PyList(rs) : rs \in SeqsUpTo(QueryResults, MaxResults)}
                      \cup QueryResults,
        rt \in {Unspecified, ":pattern", ":bind"} :
       helperCall = [fn |-> "response_to_query",
                     content |-> KQMLList(<<KQMLToken(<<"p">>)>> \o args),
                     results |-> results,
                     response_type |-> rt,
                     done |-> FALSE,
                     reply |-> NoReply]

\* a handler on a dispatch worker calls response_to_query, which builds the
\* reply and hands it to self.reply, that is to send
RespondToQuery ==
  /\ helperCall.fn = "response_to_query"
  /\ ~helperCall.done
  /\ pcS[QueryCaller] = "idle"
  /\ LET r == response_to_query(helperCall.content, helperCall.results,
                                helperCall.response_type)
     IN /\ helperCall' = [helperCall EXCEPT !.done = TRUE, !.reply = r]
        /\ pcS' = IF r.ok THEN [pcS EXCEPT ![QueryCaller] = "c_sock"] ELSE pcS
  /\ UNCHANGED <<cfgVars, hostVars, exits, pcMain, listen_socket, listenVars,
                 sharedVars, connVars, send_socket, out, myOut, sock,
                 readyClearedAt, exitInFlight>>

NextQuery ==
  \/ RespondToQuery
  \/ \E k \in WorkerCallers : WorkerSend(k)

QuerySpec == InitQuery /\ [][NextQuery]_vars

\* ------------------------------------------------------------------------
\* Specification of listify and the wire form over native values
\* ------------------------------------------------------------------------
\* elements of sequences and pairs
Elems == {PyStr(<<"a">>), PyStr(<<"a", "a">>), PyBool(TRUE), PyBool(FALSE)}
\* the items of mappings of up to MaxElems entries with distinct keys
DictItems ==
  {items \in SeqsUpTo({PyTuple(<<k, v>>) :
                          k \in {PyStr(<<"a">>), PyStr(<<"a", "a">>)},
                          v \in Elems}, MaxElems) :
     \A i, j \in 1..Len(items) :
       i # j => items[i].data[1] # items[j].data[1]}
\* strings, booleans, sequences, pairs, other tuples and mappings
NativeValues ==
  {PyStr(cs) : cs \in SeqsUpTo({"a", Space, "\t", "(", ")"}, MaxStr)}
    \cup {PyBool(TRUE), PyBool(FALSE)}
    \cup {PyList(vs) : vs \in SeqsUpTo(Elems, MaxElems)}
    \cup {PyTuple(vs) : vs \in SeqsUpTo(Elems, MaxElems)}
    \cup {PyList(<<PyList(<<e>>)>>) : e \in Elems}
    \cup {PyDict(items) : items \in DictItems}

InitTerm ==
  /\ peers = 0
  /\ Constructed
  /\ \E v \in NativeValues :
       helperCall = [fn |-> "listify", value |-> v, done |-> FALSE,
                     term |-> KQMLList(<<>>), read |-> ReadError,
                     bool |-> FALSE]

\* listify(value); the term is written into the content of a message and
\* read back; convert_to_boolean of the term
Listify ==
  /\ helperCall.fn = "listify"
  /\ ~helperCall.done
  /\ LET term == listify(helperCall.value) IN
       helperCall' = [helperCall EXCEPT
                        !.done = TRUE,
                        !.term = term,
                        !.read = FromString(Write(KQMLList(<<term>>))),
                        !.bool = convert_to_boolean(term)]
  /\ UNCHANGED <<cfgVars, hostVars, exits, pcMain, listen_socket, listenVars,
                 sharedVars, connVars, sendVars, histVars>>

NextTerm == Listify

TermSpec == InitTerm /\ [][NextTerm]_vars

\* ------------------------------------------------------------------------
\* Properties
\* ------------------------------------------------------------------------

\* C1: in every reachable state of the accept / dispatch loop, at most 5
\* dispatch units have begun and not yet ended.
C1_AtMostFiveDispatching == Cardinality(Running) <= max_workers

\* the pool is full while a further connection is waiting to be accepted
C1_PoolFullWitness == Cardinality(Running) = max_workers /\ Pending # {}

C3_ReplyOnOwnConnection ==
  lastReply.msg # None => lastReply.sink = lastReply.msg

\* send() call k ran with no other send() call in progress or finished
Alone(k) == \A j \in WorkerCallers : j # k => pcS[j] = "idle"

\* C4: when a send() call has returned, or has raised because flushing the
\* message hit a low-level I/O error, the socket it opened is shut down and
\* closed and send_socket and out are None again.
C4_SendClosesSocket ==
  \A k \in WorkerCallers :
    (Alone(k) /\ pcS[k] \in {"returned", "raised_io"})
      => /\ sock[k].shutdowns > 0
         /\ sock[k].closes > 0
         /\ send_socket = None
         /\ out = None

\* C5: when connect() fails at the OS level, the socket it created is closed
\* and send_socket does not keep referring to it.
C5_ConnectFailureLeavesNothing ==
  \A k \in WorkerCallers :
    (Alone(k) /\ pcS[k] = "raised_assert")
      => /\ sock[k].closes > 0
         /\ send_socket # k

\* C6: every socket carries at most one message, the message of the call
\* that opened it, and is closed at most once.
C6_SendOwnsItsSocket ==
  \A k \in WorkerCallers :
    /\ Len(sock[k].msgs) <= 1
    /\ \A i \in 1..Len(sock[k].msgs) : sock[k].msgs[i].call = k
    /\ sock[k].closes <= 1
    /\ pcS[k] = "returned" => (Len(sock[k].msgs) = 1 /\ sock[k].closes = 1)

\* C7: whenever the message stream of some accepted connection is being
\* read, the agent state is 'dispatching'.
C7_DispatchingWhileReading == Running # {} => state = "dispatching"

\* the register messages written to any outbound socket
RegisterMsgs ==
  {<<k, i>> \in Callers \X (1..(NCallers + 1)) :
      i <= Len(sock[k].msgs) /\ sock[k].msgs[i].msg.verb = "register"}

\* C8: the register message is sent only once the listener socket is bound
\* and the listener thread started; at most one is ever sent, exactly one by
\* a constructed agent, and it names the agent and carries
\* socket://host:listener_port and the listener port.
C8_OneRegisterAfterListener ==
  /\ pcS[MainCaller] # "idle"
       => (listen_socket = "listening" /\ pcL # "unstarted")
  /\ Cardinality(RegisterMsgs) <= 1
  /\ pcMain \in {"constructed", "x_check", "x_shutdown", "x_join",
                 "x_terminate", "exited", "exit_raised"}
       => /\ Cardinality(RegisterMsgs) = 1
          /\ \A r \in RegisterMsgs :
               LET m == sock[r[1]].msgs[r[2]].msg IN
                 /\ m.sender = name
                 /\ m.content[1] = <<"socket", host, listener_port>>
                 /\ m.content[4] = listener_port

\* the constructor has returned and the register message is on its socket
C8_RegisteredWitness ==
  /\ pcMain = "constructed"
  /\ Len(sock[MainCaller].msgs) = 1
  /\ pcL # "unstarted"

\* C9: once exit has cleared ready, no connection that arrives afterwards is
\* accepted or handed to a dispatch unit.
C9_NoAcceptAfterClear ==
  readyClearedAt >= 0
    => \A c \in Conns : c > readyClearedAt => conn[c] \in {"none", "pending"}

\* C10: when exit runs while several dispatch units are in flight, every
\* one of them has been signalled to stop once exit is past its shutdown
\* step.
C10_ExitSignalsAllInFlight ==
  (pcMain \in {"x_join", "x_terminate", "exited"}
     /\ Cardinality(exitInFlight) >= 2)
    => \A c \in exitInFlight : shut[c]

\* C11: once exit() has returned, the listening socket has been shut down
\* and released, and it is released only after the listener thread ended.
C11_ListenSocketReleased ==
  /\ pcMain = "exited" => listen_socket = "closed"
  /\ listen_socket = "closed" => pcL = "terminated"

\* C12: once exit() waits for the listener thread, and every unit in flight
\* reaches its end, the listener thread terminates and exit() returns, with
\* no further connection having to arrive: in every run, also while peers
\* that could still connect remain, exit() returns or a connection arrives
\* after ready was cleared.
C12_ExitReturns ==
  (pcMain = "x_join" /\ Cardinality(Arrived) < peers)
    ~> (pcMain = "exited" \/ Cardinality(Arrived) > readyClearedAt)

\* C13: an exit() call made after an exit() call has returned raises no
\* error, changes nothing of the stopped agent (ready stays cleared, the
\* dispatcher, its shutdown marks, the state and the listening socket are
\* left as they were), and finds the listener thread terminated: it is
\* joined again and never restarted.
C13_SecondExitIdempotent ==
  /\ [](exits >= 1 => (pcMain # "exit_raised" /\ ~ready
                         /\ pcL = "terminated"))
  /\ [][exits >= 1 => UNCHANGED <<ready, dispatcher, local_out, state, shut,
                                  pcL, connection, listen_socket,
                                  hostProc>>]_vars

\* a second exit() call has returned
C13_SecondExitWitness == exits = 2 /\ pcMain = "exited"

\* C14: the host process is sent the terminate signal only by an agent that
\* launched it, only after that agent's listener thread has been joined,
\* and has been sent it whenever exit() of such an agent has returned; an
\* agent that was given or discovered the port terminates nothing.
C14_TerminateOwnChildAfterJoin ==
  /\ hostProc = "terminated"
       => (companions_process # None /\ pcL = "terminated")
  /\ pcMain = "x_terminate" => pcL = "terminated"
  /\ (pcMain = "exited" /\ companions_process # None)
       => hostProc = "terminated"
  /\ (pcMain = "exited" /\ companions_process = None)
       => hostProc = "running"

\* exit() of an agent that launched its host has returned
C14_ChildTerminatedWitness ==
  /\ pcMain = "exited"
  /\ companions_process = ChildPid
  /\ hostProc = "terminated"

\* C15: the launch constructor deletes an existing portnum.dat before it
\* spawns the host, reads the port only once the host runs and the file
\* exists, reads it with the pid of the host it spawned, and so never reads
\* a record that was there before the spawn.
C15_LaunchOrder ==
  /\ pcMain = "l_spawn" => files[LaunchDir].kind = "absent"
  /\ pcMain \in {"l_exists", "l_spawn"}
       => (hostProc = "none" /\ got = NoCall)
  /\ pcMain = "l_read"
       => (hostProc = "running" /\ files[LaunchDir].kind # "absent")
  /\ got.by = "launch"
       => /\ got.pid = ChildPid
          /\ got.path = LaunchDir
          /\ files[LaunchDir] \in HostRecords
          /\ files[LaunchDir] # StaleRecord
          /\ got.res.port # StalePort
          /\ got.res.port # None => got.res.port = files[LaunchDir].port

\* the port the launched host wrote has been read with the host's pid
C15_PortReadWitness ==
  /\ got.by = "launch"
  /\ got.res = Returned(PortIn(LaunchDir))
  /\ port = PortIn(LaunchDir)
  /\ pcMain = "constructed"

\* C16: when the launch constructor's lookup yields no port (the record has
\* no port key), construction goes on with the caller's port, or the
\* default 9000, instead of failing.
C16_NoPortFallsBack ==
  (/\ got.by = "launch"
   /\ got.res = Returned(None)
   /\ valid_port(argPort))
    => (port = argPort /\ pcMain # "failed")

\* C17: get_port returns None when the file does not exist, None when the
\* record has no port key, the record's port when verification is not
\* requested (whatever the pid), and fails its verification, returning
\* neither None nor a port, when verification is requested and the pid
\* differs.
C17_GetPortCases ==
  got.by = "get_port" =>
    LET f == files[got.path] IN
      /\ f.kind = "absent" => got.res = Returned(None)
      /\ (f.kind = "record" /\ f.port = Absent) => got.res = Returned(None)
      /\ (f.kind = "record" /\ f.port # Absent /\ ~got.verify)
           => got.res = Returned(f.port)
      /\ (f.kind = "record" /\ f.port # Absent /\ got.verify
             /\ f.pid # got.pid)
           => got.res = Raised("AssertionError")

\* get_port has refused a record written under another pid
C17_VerifyFailsWitness ==
  /\ got.by = "get_port"
  /\ got.verify
  /\ files[got.path] = Record(PortIn(LaunchDir), StalePid)
  /\ got.pid = ChildPid
  /\ got.res = Raised("AssertionError")

\* a process of that name is enumerated
Runs(nm) == \E i \in 1..Len(processes) : processes[i].name = nm
\* the portnum.dat of directory d is a record with a port, written under pid q
ValidRecord(d, q) ==
  /\ files[d].kind = "record"
  /\ files[d].port # Absent
  /\ files[d].pid = q

\* C18: whenever a process named by the first entry of COMPANIONS_EXES runs
\* with a valid port record next to it, check_for_companions returns that
\* record's port, whatever else runs and whatever the qrg directory holds.
C18_ExecutableBeforeDevMode ==
  (/\ got.by = "check_for_companions"
   /\ Runs(COMPANIONS_EXES[1])
   /\ ValidRecord(MicroDir, PidOf(COMPANIONS_EXES[1])))
    => got.res = Returned(files[MicroDir].port)

\* both executables and allegro run, each with a valid record of its own,
\* and the port of the first executable's record has been returned
C18_AllPresentWitness ==
  /\ got.by = "check_for_companions"
  /\ Runs(COMPANIONS_EXES[1]) /\ Runs(COMPANIONS_EXES[2]) /\ Runs(Allegro)
  /\ qrg
  /\ ValidRecord(MicroDir, PidOf(COMPANIONS_EXES[1]))
  /\ ValidRecord(ServerDir, PidOf(COMPANIONS_EXES[2]))
  /\ ValidRecord(QrgDir, PidOf(Allegro))
  /\ got.res = Returned(PortIn(MicroDir))

\* C19: for every enumeration order and every name of COMPANIONS_EXES, when
\* a process of that name runs with a valid port record next to it and no
\* earlier-listed executable runs, check_for_companions returns that
\* record's port; in particular when only the second-listed one runs.
C19_EveryKnownExecutableFound ==
  got.by = "check_for_companions" =>
    \A i \in 1..Len(COMPANIONS_EXES) :
      (/\ Runs(COMPANIONS_EXES[i])
       /\ ValidRecord(DirOf(COMPANIONS_EXES[i]), PidOf(COMPANIONS_EXES[i]))
       /\ \A j \in 1..(i - 1) : ~Runs(COMPANIONS_EXES[j]))
        => got.res = Returned(files[DirOf(COMPANIONS_EXES[i])].port)

\* C20: init_check_companions runs discovery exactly when no port was
\* supplied and the host is unset or a loopback name; a supplied port is
\* used as it is; a discovered port is used when discovery returns one;
\* otherwise the default port is used and no error is raised; and when
\* verification is requested and the record next to the running executable
\* was written under another pid, the failure is raised and no agent is
\* constructed.
C20_FactoryDiscovery ==
  pcMain # "factory" =>
    /\ got.by = "check_for_companions"
         <=> (argPort = None
                /\ (argHost = NoHost \/ argHost \in LOCALHOST_DEFS))
    /\ argPort # None
         => (port = argPort /\ got = NoCall /\ pcMain # "factory_raised")
    /\ (argHost # NoHost /\ argHost \notin LOCALHOST_DEFS) => got = NoCall
    /\ (got.by = "check_for_companions" /\ got.res.kind = "return"
          /\ got.res.port # None)
         => (port = got.res.port /\ pcMain # "factory_raised")
    /\ (argPort = None
          /\ (got = NoCall \/ got.res = Returned(None)))
         => (port = DefaultPort /\ pcMain # "factory_raised")
    /\ (got.by = "check_for_companions" /\ verify_port
          /\ Runs(COMPANIONS_EXES[1])
          /\ files[MicroDir] = Record(PortIn(MicroDir), StalePid))
         => (pcMain = "factory_raised" /\ listen_socket = "none"
              /\ got.res = Raised("AssertionError"))

\* a local host, no port supplied: the discovered port of the running
\* executable has passed the constructor's validation
C20_DiscoveredPortWitness ==
  /\ argPort = None
  /\ argHost = "localhost"
  /\ got.res = Returned(PortIn(MicroDir))
  /\ port = PortIn(MicroDir)
  /\ pcMain = "bind"

QueryVariable(a) == a.t = "token" /\ Len(a.v) > 0 /\ a.v[1] = "?"
\* the arguments of the query and its results as a list
QueryArguments == Tail(helperCall.content.data)
QueryResultList ==
  IF helperCall.results.t = "pylist" THEN helperCall.results.data
                                     ELSE <<helperCall.results>>
VariablesOf(args) == {i \in 1..Len(args) : QueryVariable(args[i])}
\* the query has been answered with one result for each of its variables
AnsweredOnePerVariable ==
  /\ helperCall.fn = "response_to_query"
  /\ helperCall.done
  /\ Cardinality(VariablesOf(QueryArguments)) = Len(QueryResultList)
\* the contents of the messages the reply was sent in
SentReplies ==
  {sock[QueryCaller].msgs[i].msg.content :
     i \in 1..Len(sock[QueryCaller].msgs)}

\* the arguments from position i on, the variables among them replaced by
\* the results from the k-th on
RECURSIVE Substituted(_, _, _, _)
Substituted(args, i, rs, k) ==
  IF i > Len(args) THEN <<>>
  ELSE IF QueryVariable(args[i])
    THEN <<KQMLToken(rs[k].v)>> \o Substituted(args, i + 1, rs, k + 1)
    ELSE <<args[i]>> \o Substituted(args, i + 1, rs, k)

\* one dotted pair (variable . result) for each variable from position i
\* on, with the results from the k-th on
RECURSIVE Bindings(_, _, _, _)
Bindings(args, i, rs, k) ==
  IF i > Len(args) THEN <<>>
  ELSE IF QueryVariable(args[i])
    THEN <<KQMLList(<<args[i], KQMLToken(<<".">>), KQMLToken(rs[k].v)>>)>>
           \o Bindings(args, i + 1, rs, k + 1)
    ELSE Bindings(args, i + 1, rs, k)

\* C22: in pattern mode (response type unspecified or ':pattern'), with one
\* result per variable, the reply content is the predicate followed by the
\* arguments in their positions, the k-th variable replaced by the k-th
\* result and every other argument copied unchanged; it is what is sent
C22_PatternReply ==
  (AnsweredOnePerVariable /\ PatternMode(helperCall.response_type)) =>
    /\ helperCall.reply =
         [ok |-> TRUE,
          content |-> KQMLList(<<helperCall.content.data[1]>>
                                 \o Substituted(QueryArguments, 1,
                                                QueryResultList, 1))]
    /\ SentReplies \subseteq {helperCall.reply.content}

\* a pattern reply to (p ?x c ?y) or the like, with both variables
\* answered, has been sent
C22_MixedArgumentsWitness ==
  /\ AnsweredOnePerVariable
  /\ helperCall.response_type = ":pattern"
  /\ Cardinality(VariablesOf(QueryArguments)) = 2
  /\ \E i \in 1..Len(QueryArguments) : ~QueryVariable(QueryArguments[i])
  /\ QueryResultList[1] # QueryResultList[2]
  /\ SentReplies # {}

\* C23: in bind mode (any other response type), the reply content is the
\* predicate followed by exactly one dotted pair (variable . result) per
\* variable, in argument order, the k-th variable with the k-th result, and
\* no other argument appears in it
C23_BindReply ==
  (AnsweredOnePerVariable /\ ~PatternMode(helperCall.response_type)) =>
    /\ helperCall.reply =
         [ok |-> TRUE,
          content |-> KQMLList(<<helperCall.content.data[1]>>
                                 \o Bindings(QueryArguments, 1,
                                             QueryResultList, 1))]
    /\ SentReplies \subseteq {helperCall.reply.content}

\* a bind reply to a query with two variables and another argument has
\* been sent
C23_TwoBindingsWitness ==
  /\ AnsweredOnePerVariable
  /\ helperCall.response_type = ":bind"
  /\ Cardinality(VariablesOf(QueryArguments)) = 2
  /\ \E i \in 1..Len(QueryArguments) : ~QueryVariable(QueryArguments[i])
  /\ QueryResultList[1] # QueryResultList[2]
  /\ Len(helperCall.reply.content.data) = 3
  /\ SentReplies # {}


\* ------------------------------------------------------------------------
\* listify and the wire form
\* ------------------------------------------------------------------------
\* the string holds no whitespace character
NoWhitespace(s) == \A i \in 1..Len(s) : s[i] \notin Whitespace

\* listify has been applied to an ordered sequence, a two-element pair, a
\* string without whitespace or a boolean
ListifiedLossless ==
  /\ helperCall.fn = "listify"
  /\ helperCall.done
  /\ \/ helperCall.value.t \in {"pylist", "bool"}
     \/ helperCall.value.t = "tuple" /\ Len(helperCall.value.data) = 2
     \/ helperCall.value.t = "str" /\ NoWhitespace(helperCall.value.v)

\* C24: the term listify makes of an ordered sequence, a two-element pair, a
\* whitespace-free string or a boolean is read back from the wire form as
\* the same term, and convert_to_boolean(listify(b)) = b for both booleans
C24_RoundTripLossless ==
  ListifiedLossless =>
    /\ helperCall.read.ok
    /\ helperCall.read.term = KQMLList(<<helperCall.term>>)
    /\ helperCall.value.t = "bool" => helperCall.bool = helperCall.value.b

\* the same for strings that hold no parenthesis and are not empty
C24_PlainStringsRoundTrip ==
  (/\ ListifiedLossless
   /\ helperCall.value.t = "str" =>
        /\ helperCall.value.v # <<>>
        /\ \A i \in 1..Len(helperCall.value.v) :
             helperCall.value.v[i] \notin {"(", ")"}) =>
    /\ helperCall.read.ok
    /\ helperCall.read.term = KQMLList(<<helperCall.term>>)
    /\ helperCall.value.t = "bool" => helperCall.bool = helperCall.value.b


\* ------------------------------------------------------------------------
\* The shared dispatcher and state fields under interleaving
\* ------------------------------------------------------------------------
\* the accept loop is between two iterations: it has started and is not
\* between accept() and the assignment of state
ListenerBetweenIterations == pcL \in {"check", "accept", "drain", "terminated"}

\* C25: whenever no accepted connection is being processed (every unit that
\* was started has reached the end of its stream and none is queued), the
\* state is 'idle', under every interleaving of the accept loop and the
\* dispatch workers
C25_IdleWhenNothingProcessed ==
  (/\ ListenerBetweenIterations
   /\ Running = {}
   /\ Queued = {}) => state = "idle"


\* C26: every accepted connection is handed to the pool once, and the end
\* of the stream of one connection never shuts down the dispatcher of
\* another connection that is still being read
C26_EofShutsOwnDispatcher ==
  [][/\ Submit => conn[connection] = "accepted"
     /\ \A c \in Conns :
          receive_eof(c) =>
            \A d \in Running \ {c} : shut'[d] = shut[d]]_vars

\* C27: at the moment receive_eof or exit calls shutdown() on the shared
\* dispatcher field, the field is not None
C27_ShutdownOnPresentDispatcher ==
  [][/\ \A c \in Conns : receive_eof(c) => dispatcher # None
     /\ ExitShutdown => dispatcher # None]_vars


\* ------------------------------------------------------------------------
\* Failed sends and the child process
\* ------------------------------------------------------------------------
\* send() call k, with no other call in progress, failed to connect
ConnectFailed(k) ==
  /\ pcS[k] = "raised_assert"
  /\ \A j \in Callers \ {k} : pcS[j] \in {"idle", "returned"}

\* C28: a send that cannot reach the host fails alone: send_socket and out
\* are None afterwards, and when it is the register message that could not
\* be sent, no accept-loop thread is left running for the agent whose
\* construction failed
C28_FailedSendIsIsolated ==
  /\ \A k \in Callers : ConnectFailed(k) => (send_socket = None /\ out = None)
  /\ (pcMain = "failed" /\ pcS[MainCaller] = "raised_assert")
       => pcL \in {"unstarted", "terminated"}


\* C29: once the agent has stopped, or its construction has failed after
\* the child was spawned, the child has been sent the terminate signal
C29_SpawnedChildTerminated ==
  (/\ companions_process # None
   /\ pcMain \in {"failed", "exited", "exit_raised"})
    => hostProc = "terminated"


\* C30: the launch constructor reads the port, opens the listener and
\* registers only once portnum.dat exists; when the file exists the wait can
\* end; and when the child has exited without writing it the constructor
\* stays in its wait: it has not returned, opened a listener or registered
C30_WaitsForPortFile ==
  /\ (/\ companions_process # None
      /\ \/ pcMain # "l_poll"
         \/ got # NoCall
         \/ listen_socket # "none"
         \/ pcL # "unstarted"
         \/ pcS[MainCaller] # "idle")
       => files[LaunchDir].kind # "absent"
  /\ (pcMain = "l_poll" /\ files[LaunchDir].kind # "absent")
       => ENABLED LaunchPoll
  /\ hostProc = "exited"
       => /\ pcMain = "l_poll"
          /\ ~ENABLED LaunchPoll
          /\ listen_socket = "none"
          /\ pcL = "unstarted"
          /\ pcS[MainCaller] = "idle"

\* the child has exited without writing portnum.dat and the constructor is
\* in its wait
C30_ChildExitedWitness ==
  /\ hostProc = "exited"
  /\ companions_process = ChildPid
  /\ pcMain = "l_poll"
  /\ files[LaunchDir].kind = "absent"


\* ------------------------------------------------------------------------
\* Development-mode discovery, malformed records, remaining results
\* ------------------------------------------------------------------------
\* no known executable runs with a port in the record next to it
NoExecutablePort ==
  \A i \in 1..Len(COMPANIONS_EXES) :
    Runs(COMPANIONS_EXES[i]) =>
      \/ files[DirOf(COMPANIONS_EXES[i])].kind = "absent"
      \/ files[DirOf(COMPANIONS_EXES[i])].port = Absent

\* C31: when the executable search yields no port, a qrg directory exists
\* and an allegro.exe process runs, check_for_companions returns the port of
\* the record at qrg/companions/v1/portnum.dat, for every enumeration order;
\* with no matching process and no qrg directory it returns None
C31_DevModeDiscovery ==
  got.by = "check_for_companions" =>
    /\ (/\ NoExecutablePort
        /\ qrg
        /\ Runs(Allegro)
        /\ ValidRecord(QrgDir, PidOf(Allegro)))
         => got.res = Returned(files[QrgDir].port)
    /\ (/\ \A nm \in ProcNames : ~Runs(nm)
        /\ ~qrg)
         => got.res = Returned(None)

\* the same where the generator has not passed allegro.exe when it is
\* searched for: an executable without a port record runs and allegro.exe
\* is enumerated after every known executable
C31_AllegroEnumeratedLast ==
  (/\ got.by = "check_for_companions"
   /\ NoExecutablePort
   /\ qrg
   /\ ValidRecord(QrgDir, PidOf(Allegro))
   /\ Len(processes) > 1
   /\ processes[Len(processes)].name = Allegro
   /\ \A i \in 1..(Len(processes) - 1) :
        processes[i].name = COMPANIONS_EXES[1])
    => got.res = Returned(files[QrgDir].port)


\* C32: when the first line of an existing port file cannot be parsed as a
\* record, get_port returns None and raises nothing
C32_MalformedRecordYieldsNone ==
  (got.by = "get_port" /\ files[got.path].kind = "malformed")
    => got.res = Returned(None)


\* the results from the k-th on, as the list listify makes of them
RemainingResults(rs, k) ==
  KQMLList([j \in 1..(Len(rs) - k + 1) |-> KQMLToken(rs[j + k - 1].v)])

\* C33: when the final argument of the query is a variable and more than
\* one result is unconsumed when it is reached, the final binding receives
\* all remaining results as one list: in pattern mode the list replaces the
\* variable, in bind mode it is the cdr of the binding
C33_FinalVariableAbsorbs ==
  (/\ helperCall.fn = "response_to_query"
   /\ helperCall.done
   /\ Len(QueryArguments) > 0
   /\ QueryVariable(QueryArguments[Len(QueryArguments)])
   /\ Len(QueryResultList) > Cardinality(VariablesOf(QueryArguments))) =>
    LET k == Cardinality(VariablesOf(QueryArguments))
        rest == RemainingResults(QueryResultList, k)
        reply == helperCall.reply.content.data
    IN /\ helperCall.reply.ok
       /\ reply[Len(reply)] =
            IF PatternMode(helperCall.response_type)
              THEN rest
              ELSE KQMLList(<<QueryArguments[Len(QueryArguments)],
                              KQMLToken(<<".">>), rest>>)


\* C34: listify classifies every string by these rules in order: a string
\* with no whitespace becomes a token; otherwise a string that starts with
\* '(' and ends with ')' becomes the list of the whitespace-separated pieces
\* of its inner text, each converted in turn, whatever parentheses or quotes
\* they hold; every other string becomes a quoted string
C34_StringClassification ==
  (/\ helperCall.fn = "listify"
   /\ helperCall.done
   /\ helperCall.value.t = "str") =>
    LET s == helperCall.value.v
        pieces == Split(SubSeq(s, 2, Len(s) - 1))
    IN helperCall.term =
         IF NoWhitespace(s) THEN KQMLToken(s)
         ELSE IF s[1] = "(" /\ s[Len(s)] = ")"
           THEN KQMLList([i \in 1..Len(pieces) |-> listify(PyStr(pieces[i]))])
           ELSE KQMLString(s)

\* the same with whitespace read as the space character alone
C34_SpaceClassification ==
  (/\ helperCall.fn = "listify"
   /\ helperCall.done
   /\ helperCall.value.t = "str") =>
    LET s == helperCall.value.v
        pieces == Split(SubSeq(s, 2, Len(s) - 1))
    IN helperCall.term =
         IF ~HasSpace(s) THEN KQMLToken(s)
         ELSE IF s[1] = "(" /\ s[Len(s)] = ")"
           THEN KQMLList([i \in 1..Len(pieces) |-> listify(PyStr(pieces[i]))])
           ELSE KQMLString(s)


\* the three-element list [car, '.', cdr] of a pair
DottedPair(pair) ==
  KQMLList(<<listify(pair[1]), KQMLToken(<<".">>), listify(pair[2])>>)

\* C35: listify turns a tuple of exactly two elements into the list
\* [car, '.', cdr] with both parts converted, a tuple of any other arity
\* into the plain list of its converted elements, and a mapping into a list
\* that holds one such dotted pair per key/value entry
C35_PairsTuplesMappings ==
  (helperCall.fn = "listify" /\ helperCall.done) =>
    LET v == helperCall.value IN
      /\ (v.t = "tuple" /\ Len(v.data) = 2)
           => helperCall.term = DottedPair(v.data)
      /\ (v.t = "tuple" /\ Len(v.data) # 2)
           => helperCall.term =
                KQMLList([i \in 1..Len(v.data) |-> listify(v.data[i])])
      /\ v.t = "dict"
           => helperCall.term =
                KQMLList([i \in 1..Len(v.data) |->
                            DottedPair(v.data[i].data)])

\* listify has been applied to a mapping of two entries
C35_TwoEntryMappingWitness ==
  /\ helperCall.fn = "listify"
  /\ helperCall.done
  /\ helperCall.value.t = "dict"
  /\ Len(helperCall.value.data) = 2
  /\ Len(helperCall.term.data) = 2
  /\ Len(helperCall.term.data[1].data) = 3

====
